---- MODULE Spec2Model ----
(***************************************************************************)
(* The Governor contract of Investment-dao (contracts/dao/lib.rs): its     *)
(* storage, the three messages propose, vote and execute, and the block    *)
(* timestamp of the chain it runs on.  Every message is one atomic step:   *)
(* either it returns (Ok or a GovernorError) or it panics, and a panic     *)
(* traps the contract, which reverts every storage write of the call.      *)
(***************************************************************************)
EXTENDS Integers, Sequences, FiniteSets, TLC

\* ---------------------------------------------------------------- bounds
MaxProposals == 2       \* propose is called at most this many times with success
MaxTime == 120          \* the block timestamp stops here
MaxDuration == 1        \* durations offered to propose are 0..MaxDuration
MaxTransfers == 2       \* length of the log of PSP22::transfer calls

\* ------------------------------------------------------- program constants
ONE_MINUTE == 60

Accounts == {"alice", "bob"}
VoteType == {"For", "Aganist"}
GovernorError ==
    {"AmountShouldNotBeZero", "DurationError", "QuorumNotReached",
     "ProposalNotFound", "ProposalAlreadyExecuted", "VotePeriodEnded",
     "AlreadyVoted", "ProposalNotAccepted", "TransactionFailed"}

Amounts == {0, 100}
Durations == 0..MaxDuration
ProposalIds == 0..MaxProposals
Quorums == {0, 50}
\* what the token contract answers to balance_of(sender) and total_supply():
\* a balance never exceeds the supply, and the supply may be zero
TokenViews == {<<0, 0>>, <<500, 1000>>, <<1000, 1000>>}
\* the block timestamp advances a minute at a time
TickStep == ONE_MINUTE

VARIABLES
    proposals,          \* Mapping<ProposalId, Proposal>
    proposal_votes,     \* Mapping<Proposal, ProposalVote>
    votes,              \* Mapping<(ProposalId, AccountId), ()>, as its key set
    next_proposal_id,   \* ProposalId
    quorum,             \* u8, set by the constructor
    now,                \* self.env().block_timestamp()
    transfers,          \* the PSP22::transfer calls issued so far, in order
    last                \* the message executed by the last step and its result

storage == <<proposals, proposal_votes, votes, next_proposal_id, quorum>>
vars == <<proposals, proposal_votes, votes, next_proposal_id, quorum, now,
          transfers, last>>

\* ----------------------------------------------------- Mapping and Option
None == <<>>
Some(x) == <<x>>
EmptyMapping == [k \in {} |-> 0]
contains(m, k) == k \in DOMAIN m
get(m, k) == IF k \in DOMAIN m THEN Some(m[k]) ELSE None
insert(m, k, v) == [x \in DOMAIN m \cup {k} |-> IF x = k THEN v ELSE m[x]]

\* --------------------------------------------------------------- getters
get_proposal(proposal_id) == get(proposals, proposal_id)

\* get_proposal(proposal_id).unwrap() panics on None; callers test that first
get_proposal_votes(proposal_id) ==
    get(proposal_votes, get_proposal(proposal_id)[1])

\* ------------------------------------------------- outcomes of a message
\* weight is the local votes_weight of vote: None until line 168 has run
Outcome(res, ps, pv, vs, nid, tr, w) ==
    [result |-> res, proposals |-> ps, proposal_votes |-> pv, votes |-> vs,
     next_proposal_id |-> nid, transfers |-> tr, weight |-> w]
\* an early `return Err(..)`: nothing was written before it
Err(e) == Outcome(e, proposals, proposal_votes, votes, next_proposal_id,
                  transfers, None)
\* a panic (unwrap on None, expect, division by zero): the contract traps and
\* the writes of the call are reverted; w is Some(votes_weight) if the panic
\* came after line 168
Trap(w) == Outcome("Trap", proposals, proposal_votes, votes, next_proposal_id,
                   transfers, w)

\* ---------------------------------------------------------------- propose
\* a slip in line 121: the duration taken as seconds, not scaled by ONE_MINUTE
vote_end_unscaled(t, duration) == t + duration

vote_end_of(t, duration) == t + duration * ONE_MINUTE

\* a slip in lines 111-113: the duration is never validated
propose_any_duration(to, amount, duration) ==
    IF amount <= 0 THEN Err("AmountShouldNotBeZero")
    ELSE LET prop == [to |-> to, amount |-> amount, vote_start |-> now,
                      vote_end |-> vote_end_of(now, duration),
                      executed |-> FALSE]
             id == next_proposal_id + 1
         IN  Outcome("Ok",
                     insert(proposals, id, prop),
                     insert(proposal_votes, prop,
                            [for_votes |-> 0, against_votes |-> 0]),
                     votes, id, transfers, None)

\* a slip in line 125: the id is allocated before the arguments are validated
propose_allocating_first(to, amount, duration) ==
    LET id == next_proposal_id + 1 IN
    IF amount <= 0
    THEN Outcome("AmountShouldNotBeZero", proposals, proposal_votes, votes,
                 id, transfers, None)
    ELSE IF duration <= 0
    THEN Outcome("DurationError", proposals, proposal_votes, votes, id,
                 transfers, None)
    ELSE LET prop == [to |-> to, amount |-> amount, vote_start |-> now,
                      vote_end |-> vote_end_of(now, duration),
                      executed |-> FALSE]
         IN  Outcome("Ok",
                     insert(proposals, id, prop),
                     insert(proposal_votes, prop,
                            [for_votes |-> 0, against_votes |-> 0]),
                     votes, id, transfers, None)

\* a slip in line 125: the counter is not advanced, the proposal is stored
\* under the current value of next_proposal_id
propose_reusing_id(to, amount, duration) ==
    IF amount <= 0 THEN Err("AmountShouldNotBeZero")
    ELSE IF duration <= 0 THEN Err("DurationError")
    ELSE LET prop == [to |-> to, amount |-> amount, vote_start |-> now,
                      vote_end |-> vote_end_of(now, duration),
                      executed |-> FALSE]
             id == next_proposal_id
         IN  Outcome("Ok",
                     insert(proposals, id, prop),
                     insert(proposal_votes, prop,
                            [for_votes |-> 0, against_votes |-> 0]),
                     votes, id, transfers, None)

propose(to, amount, duration) ==
    IF amount <= 0 THEN Err("AmountShouldNotBeZero")
    ELSE IF duration <= 0 THEN Err("DurationError")
    ELSE LET prop == [to |-> to, amount |-> amount, vote_start |-> now,
                      vote_end |-> vote_end_of(now, duration),
                      executed |-> FALSE]
             id == next_proposal_id + 1
         IN  Outcome("Ok",
                     insert(proposals, id, prop),
                     insert(proposal_votes, prop,
                            [for_votes |-> 0, against_votes |-> 0]),
                     votes, id, transfers, None)

\* ------------------------------------------------------------------- vote
votes_weight(caller_balance, total_balance) ==
    (caller_balance \div total_balance) * 100

vote(proposal_id, sender, choice, caller_balance, total_balance) ==
    IF contains(proposals, proposal_id) THEN Err("ProposalNotFound")
    ELSE
    LET p == get_proposal(proposal_id) IN
    IF p # None /\ p[1].executed = TRUE THEN Err("ProposalAlreadyExecuted")
    ELSE IF p # None /\ p[1].vote_end < now THEN Err("VotePeriodEnded")
    ELSE IF <<proposal_id, sender>> \in votes THEN Err("AlreadyVoted")
    ELSE
    LET voted == votes \cup {<<proposal_id, sender>>} IN
    IF total_balance = 0 THEN Trap(None)
    ELSE
    LET w == votes_weight(caller_balance, total_balance) IN
    IF p = None THEN Trap(Some(w))
    ELSE
    LET proposal == p[1]
        pv == get(proposal_votes, proposal)
    IN
    IF pv = None THEN Trap(Some(w))
    ELSE
    LET proposal_vote ==
            IF choice = "Aganist"
            THEN [pv[1] EXCEPT !.against_votes = @ + w]
            ELSE [pv[1] EXCEPT !.for_votes = @ + w]
    IN  Outcome("Ok", proposals,
                insert(proposal_votes, proposal, proposal_vote),
                voted, next_proposal_id, transfers, Some(w))

\* ---------------------------------------------------------------- execute
execute(proposal_id, transfer_ok) ==
    IF contains(proposals, proposal_id) THEN Err("ProposalNotFound")
    ELSE
    LET g == get_proposal(proposal_id) IN
    IF g = None THEN Trap(None)
    ELSE
    LET proposal == g[1] IN
    IF proposal.executed = TRUE THEN Err("ProposalAlreadyExecuted")
    ELSE IF now < proposal.vote_end THEN Err("QuorumNotReached")
    ELSE
    LET pv == get_proposal_votes(proposal_id) IN
    IF pv # None /\ pv[1].against_votes + pv[1].for_votes < quorum
    THEN Err("QuorumNotReached")
    ELSE IF pv # None /\ pv[1].against_votes < pv[1].for_votes
    THEN Err("ProposalNotAccepted")
    ELSE
    \* proposal.executed = true changes the local copy only: it is never
    \* written back with self.proposals.insert
    IF transfer_ok
    THEN Outcome("Ok", proposals, proposal_votes, votes, next_proposal_id,
                 Append(transfers, [id |-> proposal_id, to |-> proposal.to,
                                    amount |-> proposal.amount]),
                 None)
    ELSE Err("TransactionFailed")

\* ---------------------------------------------------------------- actions
Idle == [op |-> "none", id |-> 0, sender |-> "none", choice |-> "none",
         to |-> "none", amount |-> 0, duration |-> 0, balance |-> 0,
         supply |-> 0, transfer_ok |-> FALSE, result |-> "none",
         weight |-> None]

Commit(o) ==
    /\ proposals' = o.proposals
    /\ proposal_votes' = o.proposal_votes
    /\ votes' = o.votes
    /\ next_proposal_id' = o.next_proposal_id
    /\ transfers' = o.transfers
    /\ UNCHANGED <<quorum, now>>

Init ==
    /\ proposals = EmptyMapping
    /\ proposal_votes = EmptyMapping
    /\ votes = {}
    /\ next_proposal_id = 0
    /\ quorum \in Quorums
    /\ now = 0
    /\ transfers = <<>>
    /\ last = Idle

Propose ==
    /\ next_proposal_id < MaxProposals
    /\ \E to \in Accounts, amount \in Amounts, duration \in Durations :
        LET o == propose(to, amount, duration) IN
        /\ Commit(o)
        /\ last' = [Idle EXCEPT !.op = "propose", !.to = to,
                                !.amount = amount, !.duration = duration,
                                !.result = o.result]

Vote ==
    \E proposal_id \in ProposalIds, sender \in Accounts, choice \in VoteType,
       bt \in TokenViews :
        LET o == vote(proposal_id, sender, choice, bt[1], bt[2]) IN
        /\ Commit(o)
        /\ last' = [Idle EXCEPT !.op = "vote", !.id = proposal_id,
                                !.sender = sender, !.choice = choice,
                                !.balance = bt[1], !.supply = bt[2],
                                !.result = o.result, !.weight = o.weight]

Execute ==
    /\ Len(transfers) < MaxTransfers
    /\ \E proposal_id \in ProposalIds, transfer_ok \in BOOLEAN :
        LET o == execute(proposal_id, transfer_ok) IN
        /\ Commit(o)
        /\ last' = [Idle EXCEPT !.op = "execute", !.id = proposal_id,
                                !.transfer_ok = transfer_ok,
                                !.result = o.result]

Tick ==
    /\ now + TickStep <= MaxTime
    /\ now' = now + TickStep
    /\ last' = Idle
    /\ UNCHANGED <<storage, transfers>>

Next == Propose \/ Vote \/ Execute \/ Tick

Spec == Init /\ [][Next]_vars

\* ------------------------------------------------- reading a step's call
Stored(id) == id \in DOMAIN proposals
Open(id) == Stored(id) /\ proposals[id].executed = FALSE
\* the tally execute reads for a stored proposal id in the storage (ps, pv)
TallyIn(ps, pv, id) == pv[ps[id]]
Tally(id) == TallyIn(proposals, proposal_votes, id)
ZeroTally == [for_votes |-> 0, against_votes |-> 0]
StorageUnchanged ==
    /\ proposals' = proposals
    /\ proposal_votes' = proposal_votes
    /\ votes' = votes
    /\ next_proposal_id' = next_proposal_id
NoTransferIssued == transfers' = transfers

\* ------------------------------------------ what the contract never does
\* Neither vote nor execute ever returns Ok: on a stored id both return
\* ProposalNotFound (lines 143, 184), on any other id both panic (lines 168,
\* 169, 188).
VoteAndExecuteNeverSucceed ==
    last.op \in {"vote", "execute"} => last.result \in {"ProposalNotFound", "Trap"}

\* So the ledger stays empty, every tally stays zero, no proposal is ever
\* marked executed and no transfer is ever issued.
OnlyProposeWrites ==
    /\ votes = {}
    /\ transfers = <<>>
    /\ \A p \in DOMAIN proposal_votes : proposal_votes[p] = ZeroTally
    /\ \A id \in DOMAIN proposals : proposals[id].executed = FALSE

\* ------------------------------------------------------------------ claims

\* C4: execute(id) on a stored, unexecuted proposal at a time now < vote_end
\* fails with QuorumNotReached whatever the tallies are, issues no transfer
\* and leaves executed = false.
C4_NoPrematureExecution ==
    [][(last'.op = "execute" /\ Open(last'.id)
            /\ now < proposals[last'.id].vote_end)
        => /\ last'.result = "QuorumNotReached"
           /\ NoTransferIssued
           /\ proposals'[last'.id].executed = FALSE]_vars

\* C5: the voting window is half-open: on a stored, unexecuted proposal a
\* vote returns Ok only at a time now < vote_end, and at every time
\* now >= vote_end (now = vote_end included) it fails with VotePeriodEnded and
\* changes no tally and no vote record.
C5_VotingWindowHalfOpen ==
    [][(last'.op = "vote" /\ Open(last'.id))
        => /\ last'.result = "Ok" => now < proposals[last'.id].vote_end
           /\ now >= proposals[last'.id].vote_end
                => /\ last'.result = "VotePeriodEnded"
                   /\ proposal_votes' = proposal_votes
                   /\ votes' = votes]_vars

\* C6: vote and execute on an id under which no proposal is stored return
\* ProposalNotFound and change no state; on an id under which a proposal is
\* stored neither returns ProposalNotFound.
C6_ExistenceCheck ==
    [][last'.op \in {"vote", "execute"}
        => IF Stored(last'.id)
           THEN last'.result # "ProposalNotFound"
           ELSE /\ last'.result = "ProposalNotFound"
                /\ StorageUnchanged
                /\ NoTransferIssued]_vars

\* C7: the weight vote computes for its caller is
\* balance_of(caller) * 100 / total_supply, multiplied first and then divided,
\* and a vote that returns Ok adds exactly that to the chosen tally and
\* nothing to the other tally.
C7_VotingWeight ==
    [][last'.op = "vote"
        => LET w == (last'.balance * 100) \div last'.supply IN
           /\ last'.weight # None => last'.weight = Some(w)
           /\ last'.result = "Ok"
                => LET before == Tally(last'.id)
                       after == TallyIn(proposals', proposal_votes', last'.id)
                   IN  IF last'.choice = "For"
                       THEN /\ after.for_votes = before.for_votes + w
                            /\ after.against_votes = before.against_votes
                       ELSE /\ after.against_votes = before.against_votes + w
                            /\ after.for_votes = before.for_votes]_vars

\* C8: execute on a stored, unexecuted proposal at a time now >= vote_end with
\* for_votes + against_votes >= quorum fails with ProposalNotAccepted, issues
\* no transfer and leaves executed = false when for_votes <= against_votes,
\* and does not fail with ProposalNotAccepted when for_votes > against_votes.
C8_AcceptanceRule ==
    [][(last'.op = "execute" /\ Open(last'.id)
            /\ now >= proposals[last'.id].vote_end
            /\ Tally(last'.id).for_votes + Tally(last'.id).against_votes >= quorum)
        => IF Tally(last'.id).for_votes <= Tally(last'.id).against_votes
           THEN /\ last'.result = "ProposalNotAccepted"
                /\ NoTransferIssued
                /\ proposals'[last'.id].executed = FALSE
           ELSE last'.result # "ProposalNotAccepted"]_vars

\* C9: execute on a stored, unexecuted proposal at a time now >= vote_end
\* fails with QuorumNotReached and issues no transfer when
\* for_votes + against_votes < quorum, and does not fail with
\* QuorumNotReached when for_votes + against_votes >= quorum.
C9_QuorumRule ==
    [][(last'.op = "execute" /\ Open(last'.id)
            /\ now >= proposals[last'.id].vote_end)
        => IF Tally(last'.id).for_votes + Tally(last'.id).against_votes < quorum
           THEN /\ last'.result = "QuorumNotReached"
                /\ NoTransferIssued
           ELSE last'.result # "QuorumNotReached"]_vars

\* C10: a propose(to, amount, duration) that returns Ok at time t stores,
\* under the id next_proposal_id + 1 and under no other id, the proposal
\* {to, amount, vote_start = t, vote_end = t + duration * 60,
\* executed = false}, leaves that id's tally at (0, 0) and raises
\* next_proposal_id by exactly 1, so that the first proposal gets id 1.
C10_ProposeStores ==
    [][(last'.op = "propose" /\ last'.result = "Ok")
        => LET id == next_proposal_id + 1 IN
           /\ next_proposal_id' = id
           /\ next_proposal_id = 0 => id = 1
           /\ DOMAIN proposals' = DOMAIN proposals \cup {id}
           /\ ~Stored(id)
           /\ proposals'[id] = [to |-> last'.to, amount |-> last'.amount,
                                vote_start |-> now,
                                vote_end |-> now + last'.duration * 60,
                                executed |-> FALSE]
           /\ TallyIn(proposals', proposal_votes', id) = ZeroTally]_vars

\* a second proposal has just been stored, at a time later than 0
C10_Witness ==
    /\ last.op = "propose"
    /\ last.result = "Ok"
    /\ next_proposal_id = 2
    /\ now > 0
    /\ proposals[2].vote_start = now

\* C11: propose with amount = 0 fails with AmountShouldNotBeZero, and propose
\* with amount > 0 and duration = 0 fails with DurationError; either failure
\* stores no proposal, creates no tally and leaves next_proposal_id unchanged.
C11_ProposeValidation ==
    [][last'.op = "propose"
        => /\ last'.amount = 0 => last'.result = "AmountShouldNotBeZero"
           /\ (last'.amount > 0 /\ last'.duration = 0)
                => last'.result = "DurationError"
           /\ last'.result \in {"AmountShouldNotBeZero", "DurationError"}
                => /\ proposals' = proposals
                   /\ proposal_votes' = proposal_votes
                   /\ next_proposal_id' = next_proposal_id]_vars

\* a propose with a positive amount and duration 0 has just been refused by a
\* contract that already holds a proposal
C11_Witness ==
    /\ last.op = "propose"
    /\ last.amount > 0
    /\ last.duration = 0
    /\ last.result = "DurationError"
    /\ next_proposal_id = 1
    /\ DOMAIN proposals = {1}

\* the key of proposal_votes under which the tally of a stored id is kept:
\* vote (lines 169-170) and get_proposal_votes (lines 251-252) look the tally
\* up under the stored Proposal itself
TallyKeyIn(ps, id) == ps[id]

\* C13: tallies are per proposal id.  A propose that returns Ok gives the new
\* id a ProposalVote record of its own, (0, 0), shared with no other stored
\* id, and leaves the tally of every other id unchanged; a vote on id i
\* leaves the tally of every other id j unchanged.  This holds also when two
\* proposals agree on to, amount, vote_start and vote_end.
C13_TalliesPerProposalId ==
    [][/\ (last'.op = "propose" /\ last'.result = "Ok")
            => LET id == next_proposal_id' IN
               /\ TallyIn(proposals', proposal_votes', id) = ZeroTally
               /\ \A i \in DOMAIN proposals' \ {id} :
                    TallyKeyIn(proposals', i) # TallyKeyIn(proposals', id)
               /\ \A i \in DOMAIN proposals :
                    TallyIn(proposals', proposal_votes', i) = Tally(i)
       /\ last'.op = "vote"
            => \A j \in DOMAIN proposals \ {last'.id} :
                    TallyIn(proposals', proposal_votes', j) = Tally(j)]_vars

\* C16: whenever propose, vote or execute does not return Ok (it returns a
\* GovernorError, TransactionFailed included, or the call panics), the
\* proposals, the tallies, the vote ledger and next_proposal_id are what they
\* were before the call.
C16_ErrorsChangeNothing ==
    [][(last'.op \in {"propose", "vote", "execute"} /\ last'.result # "Ok")
        => StorageUnchanged]_vars

\* a vote has just returned a GovernorError on a contract that holds a
\* proposal
C16_Witness ==
    /\ last.op = "vote"
    /\ last.result \in GovernorError
    /\ Stored(last.id)
    /\ next_proposal_id = 1

\* C18: next_proposal_id never decreases and changes only in a propose that
\* returns Ok; such a propose stores its proposal under an id that held no
\* proposal before; and a stored proposal keeps its to, amount, vote_start and
\* vote_end through every later step.
C18_IdAllocation ==
    [][/\ next_proposal_id' >= next_proposal_id
       /\ next_proposal_id' # next_proposal_id
            => (last'.op = "propose" /\ last'.result = "Ok")
       /\ (last'.op = "propose" /\ last'.result = "Ok")
            => \E id \in DOMAIN proposals' \ DOMAIN proposals :
                    DOMAIN proposals' = DOMAIN proposals \cup {id}
       /\ \A id \in DOMAIN proposals :
            /\ id \in DOMAIN proposals'
            /\ proposals'[id].to = proposals[id].to
            /\ proposals'[id].amount = proposals[id].amount
            /\ proposals'[id].vote_start = proposals[id].vote_start
            /\ proposals'[id].vote_end = proposals[id].vote_end]_vars

\* a second propose has just returned Ok and the first proposal, which
\* differs from it, is still stored
C18_Witness ==
    /\ last.op = "propose"
    /\ last.result = "Ok"
    /\ DOMAIN proposals = {1, 2}
    /\ proposals[1] # proposals[2]
    /\ proposals[1].vote_start < now

====
